---- MODULE Spec2Model ----
(***************************************************************************)
(* Price trust and moderation pipeline of PriceMonWeb (Django backend).    *)
(* The database tables are the state; every request handler is one action  *)
(* (specification Spec, requests handled one at a time) or a chain of      *)
(* database steps (specification SpecConc, requests interleaved).          *)
(***************************************************************************)
EXTENDS Integers, Sequences, FiniteSets, Bags, TLC

\* ---------------------------------------------------------------- bounds
NumUsers == 5
MaxPrices == 1
NumBarcodes == 2
MaxSteps == 3
MaxReportSteps == 6
MaxTime == 31
NumContributors == 1
NumConcUsers == 3
MaxConcRequests == 2
MaxConcPrices == 3
MaxModerationSteps == 3
MaxRateSteps == 4
MaxRatePrices == 3
MaxOutlierSteps == 3
MaxOutlierPrices == 4
MaxProductSteps == 3
MaxProductBarcodes == 4
MaxHistoryPrices == 4
MaxComparePrices == 2
MaxListItems == 2

\* ------------------------------------------------------ program constants
PriceAward == 3
VoteAward == 1
ProductAward == 5
RejectPenalty == 20
ReportThreshold == 3
RateLimitSeconds == 30
ProductAutoApproveScore == 100
PriceAutoApproveScore == 50
WeekDays == 7
MonthDays == 30

\* ------------------------------------------------------------ input sets
Users == 1 .. NumUsers
\* user 1 is the admin; the users after it add prices and products
Contributors == 2 .. (1 + NumContributors)
PriceIds == 1 .. MaxPrices
Barcodes == 1 .. NumBarcodes
Stores == {1}
StatusChoices == {"pending", "approved", "rejected"}
VoteTypes == {"positive", "negative"}
Currencies == {"EUR"}
PricesEntered == {1000}
ConcPricesEntered == {1000, 3000}
TimeSteps == {31}
RateTimeSteps == {1, 29, 30}
RateUsers == {2, 3}
\* around 2.5 x 10.00 and 0.4 x 10.00
OutlierPricesEntered == {390, 410, 2400, 2600}
OutlierUsers == {1, 4}
\* scores on both sides of the two auto-approve thresholds
ProductScores == {0, 50, 95, 99, 100}
ProductUsers == {1, 2, 3}
ProductBarcodes == 1 .. MaxProductBarcodes
InitialScores == {0, 22}
\* the interleavings are those of two requests
Slots == {1, 2}
ConcUsers == 1 .. NumConcUsers

\* users.is_admin: user 1 is the superuser made by create_superuser
is_admin == [u \in Users |-> u = 1]

VARIABLES
  trust_score,          \* users.trust_score
  total_prices_added,   \* users.total_prices_added
  total_products_added, \* users.total_products_added
  products,             \* table products, id = index
  prices,               \* table product_prices, id = index
  verifications,        \* table price_verifications, a bag of rows
  reports,              \* table price_reports, a bag of rows
  items,                \* table shopping_list_items of one list, in queryset order
  now,                  \* wall clock, seconds
  reqs,                 \* requests in flight, with their in-memory model instances
  response,             \* outcome of the request handled last
  steps                 \* number of steps taken

users == <<trust_score, total_prices_added, total_products_added>>
db == <<trust_score, total_prices_added, total_products_added,
        products, prices, verifications, reports, items>>
vars == <<trust_score, total_prices_added, total_products_added,
          products, prices, verifications, reports, items, now, reqs, response, steps>>

Max(a, b) == IF a >= b THEN a ELSE b

RECURSIVE SumEur(_, _)
SumEur(ps, S) ==
  IF S = {} THEN 0
  ELSE LET i == CHOOSE x \in S : TRUE
       IN ps[i].price_eur + SumEur(ps, S \ {i})

\* Decimal division by the fixed rate, as a fraction of cents
EurNum(entered, currency) ==
  IF currency = "BGN" THEN entered * 100000 ELSE entered
EurDen(currency) ==
  IF currency = "BGN" THEN 195583 ELSE 1

\* DecimalField(decimal_places=2): the stored value is quantized (half even;
\* a tie cannot occur for a division by 1.95583)
Quantize(num, den) == (2 * num + den) \div (2 * den)

Resp(op, result) == [op |-> op, result |-> result]

\* a row of the users table, as loaded into a User instance
UserRow(u) ==
  [trust_score |-> trust_score[u],
   total_prices_added |-> total_prices_added[u],
   total_products_added |-> total_products_added[u]]

NoUserRow == [trust_score |-> 0, total_prices_added |-> 0, total_products_added |-> 0]

NoPriceRow ==
  [product |-> 0, store |-> 0, price_eur |-> 0, status |-> "", is_outlier |-> FALSE,
   positive_votes |-> 0, negative_votes |-> 0, submitted_by |-> 0, created_at |-> 0]

\* a free slot
Idle ==
  [op |-> "idle", pc |-> "idle", user |-> 0, price |-> 0, vt |-> "", barcode |-> 0,
   num |-> 0, den |-> 1, status |-> "", u_row |-> NoUserRow, p_row |-> NoPriceRow,
   t_row |-> NoUserRow]

Init ==
  /\ \E s \in InitialScores : trust_score = [u \in Users |-> s]
  /\ total_prices_added = [u \in Users |-> 0]
  /\ total_products_added = [u \in Users |-> 0]
  /\ products = << [barcode |-> 1, status |-> "approved", created_by |-> 0] >>
  /\ prices = << >>
  /\ verifications = EmptyBag
  /\ reports = EmptyBag
  /\ items = << >>
  /\ now = 0
  /\ reqs = [s \in Slots |-> Idle]
  /\ response = Resp("none", "ok")
  /\ steps = 0

\* ------------------------------------------------------- price submission
\* ProductPriceViewSet.create, rate limit check
RecentSubmission(u) ==
  \E i \in DOMAIN prices :
     /\ prices[i].submitted_by = u
     /\ prices[i].created_at >= now - RateLimitSeconds

\* the product's other approved, non-outlier prices
ExistingPrices(ps, prod, id) ==
  {i \in DOMAIN ps : /\ i # id
                     /\ ps[i].product = prod
                     /\ ps[i].status = "approved"
                     /\ ps[i].is_outlier = FALSE}

\* new > avg * 2.5 or new < avg * 0.4, with new = num/den and avg = sum/n
\* (the code compares floats; the products are exact for the prices drawn here)
IsOutlierPrice(num, den, sum, n) ==
  /\ n >= 2
  /\ sum > 0
  /\ \/ 2 * num * n > 5 * sum * den
     \/ 5 * num * n < 2 * sum * den

\* ProductPriceSerializer.create: conversion, award, insert
NewPrice(u, prod, store, entered, currency, st, outl) ==
  [product |-> prod, store |-> store,
   price_eur |-> Quantize(EurNum(entered, currency), EurDen(currency)),
   status |-> st, is_outlier |-> outl,
   positive_votes |-> 0, negative_votes |-> 0,
   submitted_by |-> u, created_at |-> now]

\* a flag that also holds the price back for review
FlaggedAndHeld(pr) == [pr EXCEPT !.is_outlier = TRUE, !.status = "pending"]

\* ProductPriceViewSet.create: price.is_outlier = True
Flagged(pr) == [pr EXCEPT !.is_outlier = TRUE]

SubmitPrice(u, prod, store, entered, currency, st, outl) ==
  /\ prod \in DOMAIN products
  /\ store \in Stores
  /\ IF RecentSubmission(u)
     THEN /\ response' = Resp("submitPrice", "RateLimited")
          /\ UNCHANGED db
     ELSE LET id == Len(prices) + 1
              ps == Append(prices, NewPrice(u, prod, store, entered, currency, st, outl))
              peers == ExistingPrices(ps, prod, id)
              flag == IsOutlierPrice(EurNum(entered, currency), EurDen(currency),
                                     SumEur(ps, peers), Cardinality(peers))
          IN /\ prices' = IF flag THEN [ps EXCEPT ![id] = Flagged(@)] ELSE ps
             /\ trust_score' = [trust_score EXCEPT ![u] = @ + PriceAward]
             /\ total_prices_added' = [total_prices_added EXCEPT ![u] = @ + 1 + 1]
             /\ response' = Resp("submitPrice", "ok")
             /\ UNCHANGED <<total_products_added, products, verifications, reports, items>>
  /\ UNCHANGED now

\* ------------------------------------------------------------------ votes
VoteRows(tbl, p) == {v \in BagToSet(tbl) : v.price = p}

HasVoted(tbl, u, p) == \E v \in VoteRows(tbl, p) : v.user = u

RECURSIVE Copies(_, _)
Copies(tbl, S) ==
  IF S = {} THEN 0
  ELSE LET r == CHOOSE x \in S : TRUE
       IN CopiesIn(r, tbl) + Copies(tbl, S \ {r})

VoteCount(tbl, p) == Copies(tbl, VoteRows(tbl, p))

VoteCountOf(tbl, p, vt) == Copies(tbl, {v \in VoteRows(tbl, p) : v.vote_type = vt})

\* a table without the unique_together constraint
VoteUniqueNotEnforced(tbl, row) == TRUE

\* PriceVerification.Meta: unique_together = ['price', 'user']
VoteUnique(tbl, row) ==
  ~\E v \in BagToSet(tbl) : v.price = row.price /\ v.user = row.user


\* validate_price without the own-price check
ValidateVoteNoSelfCheck(u, p) ==
  IF HasVoted(verifications, u, p) THEN "DuplicateVote" ELSE "ok"

\* validate_price without the already-voted check
ValidateVoteNoDuplicateCheck(u, p) ==
  IF prices[p].submitted_by = u THEN "SelfVoteForbidden" ELSE "ok"

\* validate_price that also refuses a price whose status is not approved
\* (not the program's: the validator never reads the status)
ValidateVoteApprovedOnly(u, p) ==
  IF prices[p].submitted_by = u THEN "SelfVoteForbidden"
  ELSE IF HasVoted(verifications, u, p) THEN "DuplicateVote"
  ELSE IF prices[p].status # "approved" THEN "NotFound"
  ELSE "ok"

\* PriceVerificationSerializer.validate_price
ValidateVote(u, p) ==
  IF prices[p].submitted_by = u THEN "SelfVoteForbidden"
  ELSE IF HasVoted(verifications, u, p) THEN "DuplicateVote"
  ELSE "ok"


\* a vote counted on positive_votes whatever its type
CountVoteAlwaysPositive(pr, vt) ==
  [pr EXCEPT !.positive_votes = @ + 1]

\* a vote that also resets the outlier flag
CountVoteClearsOutlier(pr, vt) ==
  IF vt = "positive"
  THEN [pr EXCEPT !.positive_votes = @ + 1, !.is_outlier = FALSE]
  ELSE [pr EXCEPT !.negative_votes = @ + 1, !.is_outlier = FALSE]

\* PriceVerificationSerializer.create: the counter matching vote_type
CountVote(pr, vt) ==
  IF vt = "positive"
  THEN [pr EXCEPT !.positive_votes = @ + 1]
  ELSE [pr EXCEPT !.negative_votes = @ + 1]

\* PriceVerificationViewSet.verify_price
CastVote(u, p, vt) ==
  /\ IF p \notin DOMAIN prices
     THEN /\ response' = Resp("castVote", "NotFound")
          /\ UNCHANGED db
     ELSE IF ValidateVote(u, p) # "ok"
     THEN /\ response' = Resp("castVote", ValidateVote(u, p))
          /\ UNCHANGED db
     ELSE IF ~VoteUnique(verifications, [price |-> p, user |-> u, vote_type |-> vt])
     THEN /\ response' = Resp("castVote", "IntegrityError")
          /\ UNCHANGED db
     ELSE /\ verifications' =
               verifications (+) SetToBag({[price |-> p, user |-> u, vote_type |-> vt]})
          /\ prices' = [prices EXCEPT ![p] = CountVote(@, vt)]
          /\ trust_score' = [trust_score EXCEPT ![u] = @ + VoteAward]
          /\ response' = Resp("castVote", "ok")
          /\ UNCHANGED <<total_prices_added, total_products_added, products, reports, items>>
  /\ UNCHANGED now

\* ---------------------------------------------------------------- reports
ReportRows(tbl, p) == {r \in BagToSet(tbl) : r.price = p}

HasReported(tbl, u, p) == \E r \in ReportRows(tbl, p) : r.reported_by = u

ReportCount(tbl, p) == Copies(tbl, ReportRows(tbl, p))

\* PriceReport.Meta: unique_together = ['price', 'reported_by']
ReportUnique(tbl, row) ==
  ~\E r \in BagToSet(tbl) : r.price = row.price /\ r.reported_by = row.reported_by


\* validate_price without the already-reported check
ValidateReportNoDuplicateCheck(u, p) ==
  IF prices[p].submitted_by = u THEN "SelfReportForbidden" ELSE "ok"

\* PriceReportSerializer.validate_price
ValidateReport(u, p) ==
  IF prices[p].submitted_by = u THEN "SelfReportForbidden"
  ELSE IF HasReported(reports, u, p) THEN "DuplicateReport"
  ELSE "ok"


\* the threshold test without the status test
ShouldFlagAnyStatus(report_count, status) ==
  report_count >= ReportThreshold

\* the threshold test as an equality
ShouldFlagExactly(report_count, status) ==
  report_count = ReportThreshold /\ status = "approved"

\* PriceReportSerializer.create: flag for admin review
ShouldFlag(report_count, status) ==
  report_count >= ReportThreshold /\ status = "approved"

\* PriceReportViewSet.report_price
\* The threshold write that also sets the outlier flag (not the program's).
DemotedAndFlagged(pr) == [pr EXCEPT !.status = "pending", !.is_outlier = TRUE]

\* price.status = 'pending' of the threshold branch
Demoted(pr) == [pr EXCEPT !.status = "pending"]

ReportPrice(u, p) ==
  /\ IF p \notin DOMAIN prices
     THEN /\ response' = Resp("reportPrice", "NotFound")
          /\ UNCHANGED db
     ELSE IF ValidateReport(u, p) # "ok"
     THEN /\ response' = Resp("reportPrice", ValidateReport(u, p))
          /\ UNCHANGED db
     ELSE IF ~ReportUnique(reports, [price |-> p, reported_by |-> u])
     THEN /\ response' = Resp("reportPrice", "IntegrityError")
          /\ UNCHANGED db
     ELSE LET rs == reports (+) SetToBag({[price |-> p, reported_by |-> u]})
          IN /\ reports' = rs
             /\ prices' = IF ShouldFlag(ReportCount(rs, p), prices[p].status)
                          THEN [prices EXCEPT ![p] = Demoted(@)]
                          ELSE prices
             /\ response' = Resp("reportPrice", "ok")
             /\ UNCHANGED <<users, products, verifications, items>>
  /\ UNCHANGED now

\* ---------------------------------------------------------- admin actions
\* ProductPriceViewSet.get_queryset: what get_object finds for the user
Visible(u, p) ==
  /\ p \in DOMAIN prices
  /\ (is_admin[u] \/ prices[p].status = "approved")

\* a handler open to every authenticated user
ModeratesAnyone(u) == TRUE

\* approve and reject: request.user.is_admin
MayModerate(u) == is_admin[u]

\* an approval that keeps the outlier flag
ApprovedKeepsOutlier(pr) ==
  [pr EXCEPT !.status = "approved", !.negative_votes = 0]

\* ProductPrice.approve(), then the reset of negative_votes and is_outlier
Approved(pr) ==
  [pr EXCEPT !.status = "approved", !.negative_votes = 0, !.is_outlier = FALSE]

\* ProductPriceViewSet.approve
ApprovePrice(u, p) ==
  /\ IF ~MayModerate(u)
     THEN /\ response' = Resp("approve", "Forbidden")
          /\ UNCHANGED db
     ELSE IF ~Visible(u, p)
     THEN /\ response' = Resp("approve", "NotFound")
          /\ UNCHANGED db
     ELSE /\ prices' = [prices EXCEPT ![p] = Approved(@)]
          /\ response' = Resp("approve", "ok")
          /\ UNCHANGED <<users, products, verifications, reports, items>>
  /\ UNCHANGED now

\* ProductPriceViewSet.reject: the penalty, floored at 0
\* the penalty without the floor at 0
PenalizeNoFloor(score) == score - RejectPenalty

Penalize(score) ==
  IF score - RejectPenalty < 0 THEN 0 ELSE score - RejectPenalty

\* A reject that penalizes the submitter only the first time (not the
\* program's: the action below never looks at the status it overwrites).
RejectPriceOnce(u, p) ==
  /\ IF ~MayModerate(u)
     THEN /\ response' = Resp("reject", "Forbidden")
          /\ UNCHANGED db
     ELSE IF ~Visible(u, p)
     THEN /\ response' = Resp("reject", "NotFound")
          /\ UNCHANGED db
     ELSE /\ trust_score' = IF /\ prices[p].submitted_by \in Users
                               /\ prices[p].status # "rejected"
                            THEN [trust_score EXCEPT ![prices[p].submitted_by] = Penalize(@)]
                            ELSE trust_score
          /\ prices' = [prices EXCEPT ![p].status = "rejected"]
          /\ response' = Resp("reject", "ok")
          /\ UNCHANGED <<total_prices_added, total_products_added, products,
                         verifications, reports, items>>
  /\ UNCHANGED now

RejectPrice(u, p) ==
  /\ IF ~MayModerate(u)
     THEN /\ response' = Resp("reject", "Forbidden")
          /\ UNCHANGED db
     ELSE IF ~Visible(u, p)
     THEN /\ response' = Resp("reject", "NotFound")
          /\ UNCHANGED db
     ELSE /\ trust_score' = IF prices[p].submitted_by \in Users
                            THEN [trust_score EXCEPT ![prices[p].submitted_by] = Penalize(@)]
                            ELSE trust_score
          /\ prices' = [prices EXCEPT ![p].status = "rejected"]
          /\ response' = Resp("reject", "ok")
          /\ UNCHANGED <<total_prices_added, total_products_added, products,
                         verifications, reports, items>>
  /\ UNCHANGED now

\* ------------------------------------------------- Django admin site
\* ProductPriceAdmin.approve_prices and reject_prices, the bulk actions of the
\* admin site (open to the staff account made by create_superuser):
\* queryset.update(status=...) on the selected prices
SiteSetStatus(u, S, st, op) ==
  /\ S # {}
  /\ S \subseteq DOMAIN prices
  /\ IF ~is_admin[u]
     THEN /\ response' = Resp(op, "Forbidden")
          /\ UNCHANGED db
     ELSE /\ prices' = [i \in DOMAIN prices |->
                         IF i \in S THEN [prices[i] EXCEPT !.status = st] ELSE prices[i]]
          /\ response' = Resp(op, "ok")
          /\ UNCHANGED <<users, products, verifications, reports, items>>
  /\ UNCHANGED now

SiteApprovePrices(u, S) == SiteSetStatus(u, S, "approved", "approve_prices")

SiteRejectPrices(u, S) == SiteSetStatus(u, S, "rejected", "reject_prices")

\* --------------------------------------------- update through /prices/{id}/
\* ModelViewSet.update with ProductPriceSerializer: status and is_outlier are
\* writable fields of the serializer
UpdatePrice(u, p, st, outl) ==
  /\ IF ~Visible(u, p)
     THEN /\ response' = Resp("updatePrice", "NotFound")
          /\ UNCHANGED db
     ELSE /\ prices' = [prices EXCEPT ![p].status = st, ![p].is_outlier = outl]
          /\ response' = Resp("updatePrice", "ok")
          /\ UNCHANGED <<users, products, verifications, reports, items>>
  /\ UNCHANGED now

\* ------------------------------------------------------- product creation
BarcodeExists(b) == \E i \in DOMAIN products : products[i].barcode = b

\* User.can_auto_approve_products, User.can_auto_approve_prices
CanAutoApproveProducts(u) == is_admin[u] \/ trust_score[u] >= ProductAutoApproveScore

CanAutoApprovePrices(u) == is_admin[u] \/ trust_score[u] >= PriceAutoApproveScore

\* the decision taken at the threshold of prices
InitialProductStatusAtPriceScore(admin, score) ==
  IF admin \/ score >= PriceAutoApproveScore
  THEN "approved" ELSE "pending"

\* the decision taken on the score after the +5 award (not the program's)
InitialProductStatusAfterAward(admin, score) ==
  IF admin \/ score + ProductAward >= ProductAutoApproveScore
  THEN "approved" ELSE "pending"

\* ProductCreateSerializer.create: decided on the score before the award
InitialProductStatus(admin, score) ==
  IF admin \/ score >= ProductAutoApproveScore
  THEN "approved" ELSE "pending"

CreateProduct(u, b) ==
  /\ IF BarcodeExists(b)
     THEN /\ response' = Resp("createProduct", "BarcodeExists")
          /\ UNCHANGED db
     ELSE /\ products' = Append(products, [barcode |-> b,
                                           status |-> InitialProductStatus(is_admin[u], trust_score[u]),
                                           created_by |-> u])
          /\ total_products_added' = [total_products_added EXCEPT ![u] = @ + 1]
          /\ trust_score' = [trust_score EXCEPT ![u] = @ + ProductAward]
          /\ response' = Resp("createProduct", "ok")
          /\ UNCHANGED <<total_prices_added, prices, verifications, reports, items>>
  /\ UNCHANGED now

\* ------------------------------------------------------------------ clock
Tick(dt) ==
  /\ now' = now + dt
  /\ response' = Resp("tick", "ok")
  /\ UNCHANGED db

\* --------------------------------------------------------- specification
\* every handled request or clock step counts against the length of the run;
\* a request handled in one step leaves the requests in flight alone
Budget(max) == steps < max /\ steps' = steps + 1 /\ UNCHANGED reqs

Submit(max) ==
  \E u \in Contributors, prod \in DOMAIN products, store \in Stores,
     entered \in PricesEntered, currency \in Currencies,
     st \in StatusChoices, outl \in BOOLEAN :
    /\ Budget(max)
    /\ Len(prices) < MaxPrices
    /\ SubmitPrice(u, prod, store, entered, currency, st, outl)

Vote(max) ==
  \E u \in Users, p \in PriceIds, vt \in VoteTypes : Budget(max) /\ CastVote(u, p, vt)

Report(max) ==
  \E u \in Users, p \in PriceIds : Budget(max) /\ ReportPrice(u, p)

Approve(max) ==
  \E u \in Users, p \in PriceIds : Budget(max) /\ ApprovePrice(u, p)

Reject(max) ==
  \E u \in Users, p \in PriceIds : Budget(max) /\ RejectPrice(u, p)

Update(max) ==
  \E u \in Users, p \in PriceIds, st \in StatusChoices, outl \in BOOLEAN :
    Budget(max) /\ UpdatePrice(u, p, st, outl)

AddProduct(max) ==
  \E u \in Contributors, b \in Barcodes : Budget(max) /\ CreateProduct(u, b)

Clock(max) ==
  \E dt \in TimeSteps : Budget(max) /\ now + dt <= MaxTime /\ Tick(dt)

Next ==
  \/ Submit(MaxSteps)
  \/ Vote(MaxSteps)
  \/ Report(MaxSteps)
  \/ Approve(MaxSteps)
  \/ Reject(MaxSteps)
  \/ Update(MaxSteps)
  \/ AddProduct(MaxSteps)
  \/ Clock(MaxSteps)

Spec == Init /\ [][Next]_vars

\* the report state machine: submissions, reports and the admin's decisions
NextReport ==
  \/ Submit(MaxReportSteps)
  \/ Report(MaxReportSteps)
  \/ Approve(MaxReportSteps)
  \/ Reject(MaxReportSteps)

SpecReport == Init /\ [][NextReport]_vars

\* the admin's decisions, through the API and through the admin site, on a
\* database in which user 2 has submitted price 1 and the submitter of
\* price 2 has been deleted since (submitted_by is SET_NULL)
InitModeration ==
  /\ \E score \in InitialScores :
        trust_score = [u \in Users |-> IF u = 2 THEN score + PriceAward ELSE score]
  /\ total_prices_added = [u \in Users |-> IF u = 2 THEN 1 + 1 ELSE 0]
  /\ total_products_added = [u \in Users |-> 0]
  /\ products = << [barcode |-> 1, status |-> "approved", created_by |-> 0] >>
  /\ prices = << [NoPriceRow EXCEPT !.product = 1, !.store = 1, !.price_eur = 1000,
                                    !.status = "approved", !.submitted_by = 2],
                 [NoPriceRow EXCEPT !.product = 1, !.store = 1, !.price_eur = 1000,
                                    !.status = "approved", !.submitted_by = 0] >>
  /\ verifications = EmptyBag
  /\ reports = EmptyBag
  /\ items = << >>
  /\ now = 0
  /\ reqs = [s \in Slots |-> Idle]
  /\ response = Resp("none", "ok")
  /\ steps = 0

ModerateApprove(max) ==
  \E u \in Users, p \in DOMAIN prices : Budget(max) /\ ApprovePrice(u, p)

ModerateReject(max) ==
  \E u \in Users, p \in DOMAIN prices : Budget(max) /\ RejectPrice(u, p)

SiteApprove(max) ==
  \E u \in Users, S \in SUBSET DOMAIN prices : Budget(max) /\ SiteApprovePrices(u, S)

SiteReject(max) ==
  \E u \in Users, S \in SUBSET DOMAIN prices : Budget(max) /\ SiteRejectPrices(u, S)

NextModeration ==
  \/ Vote(MaxModerationSteps)
  \/ ModerateApprove(MaxModerationSteps)
  \/ ModerateReject(MaxModerationSteps)
  \/ SiteApprove(MaxModerationSteps)
  \/ SiteReject(MaxModerationSteps)

SpecModeration == InitModeration /\ [][NextModeration]_vars

\* submissions of two users against the clock, one request at a time
RateSubmit(max) ==
  \E u \in RateUsers, prod \in DOMAIN products, store \in Stores,
     entered \in PricesEntered, currency \in Currencies, st \in StatusChoices :
    /\ Budget(max)
    /\ Len(prices) < MaxRatePrices
    /\ SubmitPrice(u, prod, store, entered, currency, st, FALSE)

RateClock(max) ==
  \E dt \in RateTimeSteps : Budget(max) /\ now + dt <= MaxTime /\ Tick(dt)

NextRate ==
  \/ RateSubmit(MaxRateSteps)
  \/ RateClock(MaxRateSteps)

SpecRate == Init /\ [][NextRate]_vars

\* product creation by users of every trust level
InitProduct ==
  /\ trust_score \in [Users -> ProductScores]
  /\ \A u \in Users \ ProductUsers : trust_score[u] = 0
  /\ total_prices_added = [u \in Users |-> 0]
  /\ total_products_added = [u \in Users |-> 0]
  /\ products = << [barcode |-> 1, status |-> "approved", created_by |-> 0] >>
  /\ prices = << >>
  /\ verifications = EmptyBag
  /\ reports = EmptyBag
  /\ items = << >>
  /\ now = 0
  /\ reqs = [s \in Slots |-> Idle]
  /\ response = Resp("none", "ok")
  /\ steps = 0

ProductCreate(max) ==
  \E u \in ProductUsers, b \in ProductBarcodes : Budget(max) /\ CreateProduct(u, b)

NextProduct == ProductCreate(MaxProductSteps)

SpecProduct == InitProduct /\ [][NextProduct]_vars

\* ------------------------------------------------- interleaved requests
\* Each request is a chain of database steps over the model instances it
\* loaded; Model.save() writes every column of the instance's row.
Local(s) == reqs[s]

\* the request is taken by the first free worker
Begin(s, r) ==
  /\ reqs[s].op = "idle"
  /\ \A t \in Slots : t < s => reqs[t].op # "idle"
  /\ reqs' = [reqs EXCEPT ![s] = r]
  /\ UNCHANGED <<db, now, response>>

Goto(s, r) ==
  /\ reqs' = [reqs EXCEPT ![s] = r]
  /\ UNCHANGED response

Finish(s, result) ==
  /\ reqs' = [reqs EXCEPT ![s] = Idle]
  /\ response' = Resp(reqs[s].op, result)

At(s, op, pc) == reqs[s].op = op /\ reqs[s].pc = pc

\* User.save()
SaveUser(u, row) ==
  /\ trust_score' = [trust_score EXCEPT ![u] = row.trust_score]
  /\ total_prices_added' = [total_prices_added EXCEPT ![u] = row.total_prices_added]
  /\ total_products_added' = [total_products_added EXCEPT ![u] = row.total_products_added]

\* ---- castVote: PriceVerificationViewSet.verify_price
BeginVote(s, u, p, vt) ==
  Begin(s, [Idle EXCEPT !.op = "castVote", !.pc = "validate", !.user = u,
                        !.price = p, !.vt = vt, !.u_row = UserRow(u)])

VoteValidate(s) ==
  /\ At(s, "castVote", "validate")
  /\ IF Local(s).price \notin DOMAIN prices
     THEN Finish(s, "NotFound")
     ELSE IF ValidateVote(Local(s).user, Local(s).price) # "ok"
     THEN Finish(s, ValidateVote(Local(s).user, Local(s).price))
     ELSE Goto(s, [Local(s) EXCEPT !.pc = "insert", !.p_row = prices[Local(s).price]])
  /\ UNCHANGED <<db, now, steps>>

VoteInsert(s) ==
  /\ At(s, "castVote", "insert")
  /\ LET row == [price |-> Local(s).price, user |-> Local(s).user,
                 vote_type |-> Local(s).vt]
     IN IF ~VoteUnique(verifications, row)
        THEN Finish(s, "IntegrityError") /\ UNCHANGED verifications
        ELSE /\ verifications' = verifications (+) SetToBag({row})
             /\ Goto(s, [Local(s) EXCEPT !.pc = "save_price"])
  /\ UNCHANGED <<users, products, prices, reports, items, now, steps>>

VoteSavePrice(s) ==
  /\ At(s, "castVote", "save_price")
  /\ prices' = [prices EXCEPT ![Local(s).price] = CountVote(Local(s).p_row, Local(s).vt)]
  /\ Goto(s, [Local(s) EXCEPT !.pc = "save_user"])
  /\ UNCHANGED <<users, products, verifications, reports, items, now, steps>>

VoteSaveUser(s) ==
  /\ At(s, "castVote", "save_user")
  /\ SaveUser(Local(s).user, [Local(s).u_row EXCEPT !.trust_score = @ + VoteAward])
  /\ Finish(s, "ok")
  /\ UNCHANGED <<products, prices, verifications, reports, items, now, steps>>

\* ---- reportPrice: PriceReportViewSet.report_price
BeginReport(s, u, p) ==
  Begin(s, [Idle EXCEPT !.op = "reportPrice", !.pc = "validate", !.user = u,
                        !.price = p, !.u_row = UserRow(u)])

ReportValidate(s) ==
  /\ At(s, "reportPrice", "validate")
  /\ IF Local(s).price \notin DOMAIN prices
     THEN Finish(s, "NotFound")
     ELSE IF ValidateReport(Local(s).user, Local(s).price) # "ok"
     THEN Finish(s, ValidateReport(Local(s).user, Local(s).price))
     ELSE Goto(s, [Local(s) EXCEPT !.pc = "insert", !.p_row = prices[Local(s).price]])
  /\ UNCHANGED <<db, now, steps>>

ReportInsert(s) ==
  /\ At(s, "reportPrice", "insert")
  /\ LET row == [price |-> Local(s).price, reported_by |-> Local(s).user]
     IN IF ~ReportUnique(reports, row)
        THEN Finish(s, "IntegrityError") /\ UNCHANGED reports
        ELSE /\ reports' = reports (+) SetToBag({row})
             /\ Goto(s, [Local(s) EXCEPT !.pc = "count"])
  /\ UNCHANGED <<users, products, prices, verifications, items, now, steps>>

ReportCountRows(s) ==
  /\ At(s, "reportPrice", "count")
  /\ IF ShouldFlag(ReportCount(reports, Local(s).price), Local(s).p_row.status)
     THEN Goto(s, [Local(s) EXCEPT !.pc = "save_price"])
     ELSE Finish(s, "ok")
  /\ UNCHANGED <<db, now, steps>>

ReportSavePrice(s) ==
  /\ At(s, "reportPrice", "save_price")
  /\ prices' = [prices EXCEPT ![Local(s).price] = Demoted(Local(s).p_row)]
  /\ Finish(s, "ok")
  /\ UNCHANGED <<users, products, verifications, reports, items, now, steps>>

\* ---- admin reject: ProductPriceViewSet.reject
BeginReject(s, u, p) ==
  Begin(s, [Idle EXCEPT !.op = "reject", !.pc = "load", !.user = u,
                        !.price = p, !.u_row = UserRow(u)])

RejectLoad(s) ==
  /\ At(s, "reject", "load")
  /\ IF ~MayModerate(Local(s).user)
     THEN Finish(s, "Forbidden")
     ELSE IF ~Visible(Local(s).user, Local(s).price)
     THEN Finish(s, "NotFound")
     ELSE Goto(s, [Local(s) EXCEPT !.pc = "load_submitter",
                                   !.p_row = prices[Local(s).price]])
  /\ UNCHANGED <<db, now, steps>>

RejectLoadSubmitter(s) ==
  /\ At(s, "reject", "load_submitter")
  /\ IF Local(s).p_row.submitted_by \in Users
     THEN Goto(s, [Local(s) EXCEPT !.pc = "save_submitter",
                                   !.t_row = UserRow(Local(s).p_row.submitted_by)])
     ELSE Goto(s, [Local(s) EXCEPT !.pc = "save_price"])
  /\ UNCHANGED <<db, now, steps>>

RejectSaveSubmitter(s) ==
  /\ At(s, "reject", "save_submitter")
  /\ SaveUser(Local(s).p_row.submitted_by,
              [Local(s).t_row EXCEPT !.trust_score = Penalize(@)])
  /\ Goto(s, [Local(s) EXCEPT !.pc = "save_price"])
  /\ UNCHANGED <<products, prices, verifications, reports, items, now, steps>>

RejectSavePrice(s) ==
  /\ At(s, "reject", "save_price")
  /\ prices' = [prices EXCEPT ![Local(s).price] =
                  [Local(s).p_row EXCEPT !.status = "rejected"]]
  /\ Finish(s, "ok")
  /\ UNCHANGED <<users, products, verifications, reports, items, now, steps>>

\* ---- submitPrice: ProductPriceViewSet.create
Inserting == {s \in Slots : reqs[s].op = "submitPrice" /\ reqs[s].price = 0}

BeginSubmit(s, u, prod, store, entered, currency, st, outl) ==
  /\ prod \in DOMAIN products
  /\ store \in Stores
  /\ Begin(s, [Idle EXCEPT !.op = "submitPrice", !.pc = "rate_limit", !.user = u,
                           !.u_row = UserRow(u),
                           !.num = EurNum(entered, currency),
                           !.den = EurDen(currency),
                           !.p_row = NewPrice(u, prod, store, entered, currency, st, outl)])

SubmitRateLimit(s) ==
  /\ At(s, "submitPrice", "rate_limit")
  /\ IF RecentSubmission(Local(s).user)
     THEN Finish(s, "RateLimited")
     ELSE Goto(s, [Local(s) EXCEPT !.pc = "award"])
  /\ UNCHANGED <<db, now, steps>>

SubmitAward(s) ==
  /\ At(s, "submitPrice", "award")
  /\ LET row == [Local(s).u_row EXCEPT !.total_prices_added = @ + 1,
                                       !.trust_score = @ + PriceAward]
     IN /\ SaveUser(Local(s).user, row)
        /\ Goto(s, [Local(s) EXCEPT !.pc = "insert", !.u_row = row])
  /\ UNCHANGED <<products, prices, verifications, reports, items, now, steps>>

SubmitInsert(s) ==
  /\ At(s, "submitPrice", "insert")
  /\ LET row == [Local(s).p_row EXCEPT !.created_at = now]
     IN /\ prices' = Append(prices, row)
        /\ Goto(s, [Local(s) EXCEPT !.pc = "outlier", !.price = Len(prices) + 1,
                                    !.p_row = row])
  /\ UNCHANGED <<users, products, verifications, reports, items, now, steps>>

SubmitOutlier(s) ==
  /\ At(s, "submitPrice", "outlier")
  /\ LET peers == ExistingPrices(prices, Local(s).p_row.product, Local(s).price)
     IN IF IsOutlierPrice(Local(s).num, Local(s).den,
                          SumEur(prices, peers), Cardinality(peers))
        THEN Goto(s, [Local(s) EXCEPT !.pc = "flag"])
        ELSE Goto(s, [Local(s) EXCEPT !.pc = "count"])
  /\ UNCHANGED <<db, now, steps>>

SubmitFlag(s) ==
  /\ At(s, "submitPrice", "flag")
  /\ prices' = [prices EXCEPT ![Local(s).price] = Flagged(Local(s).p_row)]
  /\ Goto(s, [Local(s) EXCEPT !.pc = "count", !.p_row = Flagged(@)])
  /\ UNCHANGED <<users, products, verifications, reports, items, now, steps>>

SubmitCount(s) ==
  /\ At(s, "submitPrice", "count")
  /\ SaveUser(Local(s).user, [Local(s).u_row EXCEPT !.total_prices_added = @ + 1])
  /\ Finish(s, "ok")
  /\ UNCHANGED <<products, prices, verifications, reports, items, now, steps>>

\* ---- createProduct: ProductViewSet.create with ProductCreateSerializer
BeginProduct(s, u, b) ==
  Begin(s, [Idle EXCEPT !.op = "createProduct", !.pc = "validate", !.user = u,
                        !.barcode = b, !.u_row = UserRow(u)])

ProductValidate(s) ==
  /\ At(s, "createProduct", "validate")
  /\ IF BarcodeExists(Local(s).barcode)
     THEN Finish(s, "BarcodeExists")
     ELSE Goto(s, [Local(s) EXCEPT
                     !.pc = "award",
                     !.status = InitialProductStatus(is_admin[Local(s).user],
                                                     Local(s).u_row.trust_score)])
  /\ UNCHANGED <<db, now, steps>>

ProductAwardUser(s) ==
  /\ At(s, "createProduct", "award")
  /\ LET row == [Local(s).u_row EXCEPT !.total_products_added = @ + 1,
                                       !.trust_score = @ + ProductAward]
     IN /\ SaveUser(Local(s).user, row)
        /\ Goto(s, [Local(s) EXCEPT !.pc = "insert", !.u_row = row])
  /\ UNCHANGED <<products, prices, verifications, reports, items, now, steps>>

\* Product.barcode is unique=True
ProductInsert(s) ==
  /\ At(s, "createProduct", "insert")
  /\ IF BarcodeExists(Local(s).barcode)
     THEN Finish(s, "IntegrityError") /\ UNCHANGED products
     ELSE /\ products' = Append(products, [barcode |-> Local(s).barcode,
                                           status |-> Local(s).status,
                                           created_by |-> Local(s).user])
          /\ Finish(s, "ok")
  /\ UNCHANGED <<users, prices, verifications, reports, items, now, steps>>

\* a request starts: it counts against the number of requests of the run
Started(max) == steps < max /\ steps' = steps + 1

StartVote(max) ==
  \E s \in Slots, u \in ConcUsers, p \in PriceIds, vt \in VoteTypes :
    Started(max) /\ BeginVote(s, u, p, vt)

StartReport(max) ==
  \E s \in Slots, u \in ConcUsers, p \in PriceIds :
    Started(max) /\ BeginReport(s, u, p)

StartReject(max) ==
  \E s \in Slots, u \in ConcUsers, p \in PriceIds :
    Started(max) /\ BeginReject(s, u, p)

StartSubmit(max) ==
  \E s \in Slots, u \in ConcUsers, prod \in DOMAIN products, store \in Stores,
     entered \in ConcPricesEntered, currency \in Currencies :
    /\ Started(max)
    /\ Len(prices) + Cardinality(Inserting) < MaxConcPrices
    /\ BeginSubmit(s, u, prod, store, entered, currency, "approved", FALSE)

StartProduct(max) ==
  \E s \in Slots, u \in Contributors, b \in Barcodes :
    Started(max) /\ BeginProduct(s, u, b)

\* A database with history: users 2 and 3 have each submitted a price of
\* 10.00 EUR for product 1, and users 4 and 5 have reported price 1.
SeedSubmitters == {2, 3}

SeedReporters == {4, 5}

SeedPrice(u) ==
  [product |-> 1, store |-> 1,
   price_eur |-> Quantize(EurNum(1000, "EUR"), EurDen("EUR")),
   status |-> "approved", is_outlier |-> FALSE,
   positive_votes |-> 0, negative_votes |-> 0,
   submitted_by |-> u, created_at |-> 0]

Seeded(score) ==
  /\ trust_score = [u \in Users |-> IF u \in SeedSubmitters
                                     THEN score + PriceAward ELSE score]
  /\ total_prices_added = [u \in Users |-> IF u \in SeedSubmitters THEN 1 + 1 ELSE 0]
  /\ total_products_added = [u \in Users |-> 0]
  /\ products = << [barcode |-> 1, status |-> "approved", created_by |-> 0] >>
  /\ prices = << SeedPrice(2), SeedPrice(3) >>
  /\ verifications = EmptyBag
  /\ reports = SetToBag({[price |-> 1, reported_by |-> u] : u \in SeedReporters})
  /\ items = << >>
  /\ now = 0
  /\ reqs = [s \in Slots |-> Idle]
  /\ response = Resp("none", "ok")
  /\ steps = 0

\* votes and reports interleaved
NextConc ==
  \/ StartVote(MaxConcRequests)
  \/ StartReport(MaxConcRequests)
  \/ \E s \in Slots : VoteValidate(s)
  \/ \E s \in Slots : VoteInsert(s)
  \/ \E s \in Slots : VoteSavePrice(s)
  \/ \E s \in Slots : VoteSaveUser(s)
  \/ \E s \in Slots : ReportValidate(s)
  \/ \E s \in Slots : ReportInsert(s)
  \/ \E s \in Slots : ReportCountRows(s)
  \/ \E s \in Slots : ReportSavePrice(s)

InitConc == Seeded(0)

SpecConc == InitConc /\ [][NextConc]_vars

\* the operations that change a trust score, interleaved
NextTrust ==
  \/ StartSubmit(MaxConcRequests)
  \/ StartVote(MaxConcRequests)
  \/ StartReject(MaxConcRequests)
  \/ StartProduct(MaxConcRequests)
  \/ \E s \in Slots : SubmitRateLimit(s)
  \/ \E s \in Slots : SubmitAward(s)
  \/ \E s \in Slots : SubmitInsert(s)
  \/ \E s \in Slots : SubmitOutlier(s)
  \/ \E s \in Slots : SubmitFlag(s)
  \/ \E s \in Slots : SubmitCount(s)
  \/ \E s \in Slots : VoteValidate(s)
  \/ \E s \in Slots : VoteInsert(s)
  \/ \E s \in Slots : VoteSavePrice(s)
  \/ \E s \in Slots : VoteSaveUser(s)
  \/ \E s \in Slots : RejectLoad(s)
  \/ \E s \in Slots : RejectLoadSubmitter(s)
  \/ \E s \in Slots : RejectSaveSubmitter(s)
  \/ \E s \in Slots : RejectSavePrice(s)
  \/ \E s \in Slots : ProductValidate(s)
  \/ \E s \in Slots : ProductAwardUser(s)
  \/ \E s \in Slots : ProductInsert(s)

InitTrust == \E score \in InitialScores : Seeded(score)

SpecTrust == InitTrust /\ [][NextTrust]_vars

\* the operations that award trust, interleaved, on a database whose users
\* have nothing but the awards of their submissions
NextAwards ==
  \/ StartSubmit(MaxConcRequests)
  \/ StartVote(MaxConcRequests)
  \/ StartProduct(MaxConcRequests)
  \/ \E s \in Slots : SubmitRateLimit(s)
  \/ \E s \in Slots : SubmitAward(s)
  \/ \E s \in Slots : SubmitInsert(s)
  \/ \E s \in Slots : SubmitOutlier(s)
  \/ \E s \in Slots : SubmitFlag(s)
  \/ \E s \in Slots : SubmitCount(s)
  \/ \E s \in Slots : VoteValidate(s)
  \/ \E s \in Slots : VoteInsert(s)
  \/ \E s \in Slots : VoteSavePrice(s)
  \/ \E s \in Slots : VoteSaveUser(s)
  \/ \E s \in Slots : ProductValidate(s)
  \/ \E s \in Slots : ProductAwardUser(s)
  \/ \E s \in Slots : ProductInsert(s)

SpecAwards == InitConc /\ [][NextAwards]_vars

\* outlier detection: submissions around the thresholds, votes, reports and
\* the admin's decisions, on the database in which product 1 has two
\* approved prices of 10.00 EUR
OutlierSubmit(max) ==
  \E u \in OutlierUsers, prod \in DOMAIN products, store \in Stores,
     entered \in OutlierPricesEntered, currency \in Currencies, st \in StatusChoices :
    /\ Budget(max)
    /\ Len(prices) < MaxOutlierPrices
    /\ SubmitPrice(u, prod, store, entered, currency, st, FALSE)

VoteAny(max) ==
  \E u \in ConcUsers, p \in DOMAIN prices, vt \in VoteTypes : Budget(max) /\ CastVote(u, p, vt)

ReportAny(max) ==
  \E u \in ConcUsers, p \in DOMAIN prices : Budget(max) /\ ReportPrice(u, p)

NextOutlier ==
  \/ OutlierSubmit(MaxOutlierSteps)
  \/ VoteAny(MaxOutlierSteps)
  \/ ReportAny(MaxOutlierSteps)
  \/ ModerateApprove(MaxOutlierSteps)
  \/ ModerateReject(MaxOutlierSteps)

SpecOutlier == InitConc /\ [][NextOutlier]_vars

\* ---------------------------------------------------------- price history
\* ProductViewSet.price_history. Prices are in cents and a median in half
\* cents; the program computes the medians on binary floats.

\* timedelta(days=n), in seconds
Days(n) == n * 86400

\* created_at.date(): the calendar day of a timestamp
DateOf(t) == t \div Days(1)

Periods == {"week", "month", "all"}

\* start_date and created_at__gte=start_date
InPeriod(period, t, created_at) ==
  IF period = "week" THEN created_at >= t - Days(WeekDays)
  ELSE IF period = "month" THEN created_at >= t - Days(MonthDays)
  ELSE TRUE

\* prices_query: the ids of the rows the history is computed from
HistoryPrices(ps, prod, period, t) ==
  {i \in DOMAIN ps : /\ ps[i].product = prod
                     /\ ps[i].status = "approved"
                     /\ ~ps[i].is_outlier
                     /\ InPeriod(period, t, ps[i].created_at)}

\* sorted(data) of statistics.median, over the rows ids
RECURSIVE SortedEur(_, _)
SortedEur(ps, ids) ==
  IF ids = {} THEN << >>
  ELSE LET i == CHOOSE j \in ids : \A k \in ids : ps[j].price_eur <= ps[k].price_eur
       IN <<ps[i].price_eur>> \o SortedEur(ps, ids \ {i})

\* a median that takes the lower middle value of an even count (not the
\* program's)
MedianLowerMiddle(data) == 2 * data[(Len(data) + 1) \div 2]

\* statistics.median of sorted data, in half cents
Median(data) ==
  LET n == Len(data)
      i == n \div 2
  IN IF n % 2 = 1 THEN 2 * data[i + 1] ELSE data[i] + data[i + 1]

\* prices_by_date and the loop over sorted(prices_by_date.items())
RECURSIVE DailyMedians(_, _, _)
DailyMedians(ps, ids, dates) ==
  IF dates = {} THEN << >>
  ELSE LET d == CHOOSE x \in dates : \A y \in dates : x <= y
           day == {i \in ids : DateOf(ps[i].created_at) = d}
       IN <<[date |-> d,
             median_price_eur |-> Median(SortedEur(ps, day)),
             count |-> Cardinality(day)]>>
          \o DailyMedians(ps, ids, dates \ {d})

\* ProductViewSet.get_queryset for an authenticated user
ProductVisible(u, prod) ==
  /\ prod \in DOMAIN products
  /\ \/ is_admin[u]
     \/ products[prod].status = "approved"
     \/ products[prod].created_by = u

PriceHistory(u, prod, period) ==
  /\ IF ~ProductVisible(u, prod)
     THEN response' = Resp("price_history", "NotFound")
     ELSE LET ids == HistoryPrices(prices, prod, period, now)
          IN response' = [op |-> "price_history", result |-> "ok",
                          product |-> prod, period |-> period,
                          daily_medians |->
                            DailyMedians(prices, ids,
                                         {DateOf(prices[i].created_at) : i \in ids}),
                          total_submissions |-> Cardinality(ids)]
  /\ UNCHANGED <<db, now>>

\* the request arrives at noon; prices were created just outside the month,
\* one second outside the week, at the start of the week (the same calendar
\* day), and now
HistoryNow == Days(40) + Days(1) \div 2

HistoryTimes ==
  {HistoryNow - Days(MonthDays) - 1, HistoryNow - Days(WeekDays) - 1,
   HistoryNow - Days(WeekDays), HistoryNow}

HistoryEur == {500, 700, 900}

HistoryUsers == {2}

HistoryProducts == 1 .. 3

HistoryRow(prod, eur, st, outl, t) ==
  [NoPriceRow EXCEPT !.product = prod, !.store = 1, !.price_eur = eur,
                     !.status = st, !.is_outlier = outl, !.created_at = t]

\* approved prices of product 1 at every time, and at the last time a price
\* of product 2, a pending, a rejected and an outlier price of product 1
HistoryRows ==
  {HistoryRow(1, e, "approved", FALSE, t) : e \in HistoryEur, t \in HistoryTimes}
  \cup {HistoryRow(2, 900, "approved", FALSE, HistoryNow),
        HistoryRow(1, 900, "pending", FALSE, HistoryNow),
        HistoryRow(1, 900, "rejected", FALSE, HistoryNow),
        HistoryRow(1, 900, "approved", TRUE, HistoryNow)}

\* ids follow the order of creation
InitHistory ==
  /\ trust_score = [u \in Users |-> 0]
  /\ total_prices_added = [u \in Users |-> 0]
  /\ total_products_added = [u \in Users |-> 0]
  /\ products = << [barcode |-> 1, status |-> "approved", created_by |-> 0],
                   [barcode |-> 2, status |-> "approved", created_by |-> 0] >>
  /\ \E n \in 0 .. MaxHistoryPrices : prices \in [1 .. n -> HistoryRows]
  /\ \A i, j \in DOMAIN prices : i < j => prices[i].created_at <= prices[j].created_at
  /\ verifications = EmptyBag
  /\ reports = EmptyBag
  /\ items = << >>
  /\ now = HistoryNow
  /\ reqs = [s \in Slots |-> Idle]
  /\ response = Resp("none", "ok")
  /\ steps = 0

GetPriceHistory ==
  \E u \in HistoryUsers, prod \in HistoryProducts, period \in Periods :
    PriceHistory(u, prod, period) /\ UNCHANGED <<reqs, steps>>

NextHistory == GetPriceHistory

SpecHistory == InitHistory /\ [][NextHistory]_vars

\* ------------------------------------------------------- store comparison
\* ShoppingListViewSet.compare_stores on one shopping list. Totals are in
\* cents and coverage_percent in tenths of a percent; the program computes
\* both on binary floats and rounds them to 2 and 1 decimals.

\* the rows of Store
StoreTable == {1, 2}

\* the store_ids of a request; 3 names no store
StoreIdsSupplied ==
  {<< >>, <<1>>, <<1, 2>>, <<2, 1>>, <<1, 1>>, <<1, 3>>, <<2, 1, 2>>}

\* ShoppingList.owner of the list; the list has no other member
ListOwner == 2

CompareUsers == {2, 4}

\* ShoppingListViewSet.get_queryset
ListVisible(u) == u = ListOwner

\* shopping_list.items.filter(product__isnull=False); product 0 is NULL
ProductItems(its) == SelectSeq(its, LAMBDA it : it.product # 0)

\* ProductPrice.objects.filter(product=item.product, store=store, status='approved')
ApprovedAt(ps, prod, store) ==
  {i \in DOMAIN ps : /\ ps[i].product = prod
                     /\ ps[i].store = store
                     /\ ps[i].status = "approved"}

\* the cheapest approved price instead of the latest (not the program's)
CheapestPrice(ps, prod, store) ==
  CHOOSE i \in ApprovedAt(ps, prod, store) :
    \A k \in ApprovedAt(ps, prod, store) : ps[i].price_eur <= ps[k].price_eur

\* .order_by('-created_at').first(); creation times are distinct
LatestPrice(ps, prod, store) ==
  CHOOSE i \in ApprovedAt(ps, prod, store) :
    \A k \in ApprovedAt(ps, prod, store) : ps[i].created_at >= ps[k].created_at

\* the loop over items of one store
RECURSIVE StoreTotals(_, _, _)
StoreTotals(ps, its, store) ==
  IF its = << >>
  THEN [total_price |-> 0, items_with_prices |-> 0, items_without_prices |-> << >>]
  ELSE LET item == Head(its)
           rest == StoreTotals(ps, Tail(its), store)
       IN IF ApprovedAt(ps, item.product, store) # {}
          THEN [rest EXCEPT
                  !.total_price = ps[LatestPrice(ps, item.product, store)].price_eur
                                    * item.quantity + @,
                  !.items_with_prices = @ + 1]
          ELSE [rest EXCEPT
                  !.items_without_prices = <<item.product>> \o @]

\* round(x, 1) of Python on num / den: to the nearest, ties to even
RoundHalfEven(num, den) ==
  LET q == num \div den
      r == num % den
  IN IF 2 * r > den \/ (2 * r = den /\ q % 2 = 1) THEN q + 1 ELSE q

\* coverage_percent, in tenths of a percent
CoveragePercent(with, count) ==
  IF count > 0 THEN RoundHalfEven(1000 * with, count) ELSE 0

\* one entry of comparison
StoreResult(ps, its, store) ==
  LET t == StoreTotals(ps, its, store)
  IN [store_id |-> store,
      total_price_eur |-> t.total_price,
      items_with_prices |-> t.items_with_prices,
      items_without_prices |-> t.items_without_prices,
      coverage_percent |-> CoveragePercent(t.items_with_prices, Len(its))]

\* a comparison left in the order of the request (not the program's)
NotSorted(comparison) == comparison

\* comparison.sort(key=lambda x: x['total_price_eur']): stable, ascending
RECURSIVE SortByTotal(_)
SortByTotal(comparison) ==
  IF comparison = << >> THEN << >>
  ELSE LET n == Len(comparison)
           last == comparison[n]
           sorted == SortByTotal(SubSeq(comparison, 1, n - 1))
           at == Cardinality({k \in DOMAIN sorted :
                                sorted[k].total_price_eur <= last.total_price_eur})
       IN SubSeq(sorted, 1, at) \o <<last>> \o SubSeq(sorted, at + 1, Len(sorted))

CompareStores(u, store_ids) ==
  /\ IF ~ListVisible(u)
     THEN response' = Resp("compare_stores", "NotFound")
     ELSE IF Len(store_ids) < 2
     THEN response' = Resp("compare_stores", "InsufficientStores")
     ELSE IF \E k \in DOMAIN store_ids : store_ids[k] \notin StoreTable
     THEN response' = Resp("compare_stores", "NotFound")
     ELSE response' =
            [op |-> "compare_stores", result |-> "ok",
             total_items |-> Len(ProductItems(items)),
             stores |-> SortByTotal([k \in DOMAIN store_ids |->
                                       StoreResult(prices, ProductItems(items),
                                                   store_ids[k])])]
  /\ UNCHANGED <<db, now>>

\* product 1 twice over, product 2, and a custom item
CompareItems ==
  {[product |-> 1, quantity |-> 2], [product |-> 2, quantity |-> 1],
   [product |-> 0, quantity |-> 1]}

PriceRowAt(prod, store, eur, st) ==
  [NoPriceRow EXCEPT !.product = prod, !.store = store, !.price_eur = eur,
                     !.status = st]

\* prices of product 1 at store 1 in several states, one price of product 1
\* at store 2 and one of product 2 at store 1
CompareRows ==
  {PriceRowAt(1, 1, 300, "approved"), PriceRowAt(1, 1, 500, "approved"),
   PriceRowAt(1, 1, 500, "pending"), PriceRowAt(1, 1, 300, "rejected"),
   PriceRowAt(1, 2, 400, "approved"),
   PriceRowAt(2, 1, 100, "approved")}

SeqsUpTo(S, n) == UNION {[1 .. k -> S] : k \in 0 .. n}

\* price i was created at time i
InitCompare ==
  /\ trust_score = [u \in Users |-> 0]
  /\ total_prices_added = [u \in Users |-> 0]
  /\ total_products_added = [u \in Users |-> 0]
  /\ products = << [barcode |-> 1, status |-> "approved", created_by |-> 0],
                   [barcode |-> 2, status |-> "approved", created_by |-> 0] >>
  /\ \E rows \in SeqsUpTo(CompareRows, MaxComparePrices) :
       prices = [i \in DOMAIN rows |-> [rows[i] EXCEPT !.created_at = i]]
  /\ verifications = EmptyBag
  /\ reports = EmptyBag
  /\ items \in SeqsUpTo(CompareItems, MaxListItems)
  /\ now = MaxComparePrices + 1
  /\ reqs = [s \in Slots |-> Idle]
  /\ response = Resp("none", "ok")
  /\ steps = 0

GetComparison ==
  \E u \in CompareUsers, store_ids \in StoreIdsSupplied :
    CompareStores(u, store_ids) /\ UNCHANGED <<reqs, steps>>

NextCompare == GetComparison

SpecCompare == InitCompare /\ [][NextCompare]_vars

\* ------------------------------------------------------------------ claims
PositiveRows(tbl, p) == VoteCountOf(tbl, p, "positive")
NegativeRows(tbl, p) == VoteCountOf(tbl, p, "negative")

\* C1 (as stated): every price has positive_votes + negative_votes equal to
\* the number of PriceVerification rows referencing it.
C1_VotesEqualRows ==
  \A p \in DOMAIN prices :
    prices[p].positive_votes + prices[p].negative_votes = VoteCount(verifications, p)

\* C1 (amended): positive_votes equals the number of positive rows, and
\* negative_votes never exceeds the number of negative rows; the difference
\* between negative rows and negative_votes changes only in an admin approve,
\* which resets negative_votes and keeps the rows.
C1_VotesAccountedUpToApprove ==
  /\ [](\A p \in DOMAIN prices :
          /\ prices[p].positive_votes = PositiveRows(verifications, p)
          /\ prices[p].negative_votes <= NegativeRows(verifications, p))
  /\ [][\A p \in DOMAIN prices :
          (NegativeRows(verifications', p) - prices'[p].negative_votes
             # NegativeRows(verifications, p) - prices[p].negative_votes)
          => response' = Resp("approve", "ok")]_vars

C1_Witness ==
  \E p \in DOMAIN prices :
    /\ NegativeRows(verifications, p) >= 1
    /\ prices[p].negative_votes = 0
    /\ response = Resp("approve", "ok")

ReportRecorded(p) ==
  /\ response' = Resp("reportPrice", "ok")
  /\ ReportCount(reports', p) = ReportCount(reports, p) + 1

\* C3 (as stated): a report changes a price's status only when it brings the
\* report count to exactly 3 while the status is approved, and then to pending.
C3_StatusChangesOnlyAtThree ==
  [][\A p \in DOMAIN prices :
       (response'.op = "reportPrice" /\ prices'[p].status # prices[p].status)
       => /\ ReportCount(reports', p) = ReportThreshold
          /\ prices[p].status = "approved"
          /\ prices'[p].status = "pending"]_vars

\* C3 (amended): a recorded report moves its price to pending exactly when the
\* count it reaches is 3 or more and the status is approved; in every other
\* case, and for every other price, a report leaves the status unchanged.
C3_StatusChangesAtThreeOrMore ==
  [][\A p \in DOMAIN prices :
       response'.op = "reportPrice"
       => prices'[p].status =
            IF /\ ReportRecorded(p)
               /\ ReportCount(reports', p) >= ReportThreshold
               /\ prices[p].status = "approved"
            THEN "pending"
            ELSE prices[p].status]_vars

C3_Witness ==
  \E p \in DOMAIN prices :
    /\ response = Resp("reportPrice", "ok")
    /\ ReportCount(reports, p) = ReportThreshold
    /\ prices[p].status = "pending"

\* C4 (as stated): a report recorded when the price already has 3 or more
\* reports never changes the price's status.
C4_NoChangePastThreshold ==
  [][\A p \in DOMAIN prices :
       (ReportRecorded(p) /\ ReportCount(reports, p) >= ReportThreshold)
       => prices'[p].status = prices[p].status]_vars

\* C4 (amended): a report recorded when the price already has 3 or more
\* reports demotes the price to pending again if it is approved at that
\* moment and changes nothing otherwise; among submissions, reports and the
\* admin's approve and reject, a price with 3 or more reports becomes
\* approved only by an admin approve.
C4_RetriggersAfterReapproval ==
  /\ [][\A p \in DOMAIN prices :
          (ReportRecorded(p) /\ ReportCount(reports, p) >= ReportThreshold)
          => prices'[p].status =
               IF prices[p].status = "approved" THEN "pending" ELSE prices[p].status]_vars
  /\ [][\A p \in DOMAIN prices :
          (/\ ReportCount(reports', p) >= ReportThreshold
           /\ prices'[p].status = "approved"
           /\ ~(ReportCount(reports, p) >= ReportThreshold /\ prices[p].status = "approved"))
          => response' = Resp("approve", "ok")]_vars

C4_Witness ==
  \E p \in DOMAIN prices :
    /\ response = Resp("reportPrice", "ok")
    /\ ReportCount(reports, p) > ReportThreshold
    /\ prices[p].status = "pending"

\* a request of user u that needs no admin rights
NonAdminRequest(u) ==
  \/ \E prod \in DOMAIN products, store \in Stores, entered \in PricesEntered,
        currency \in Currencies, st \in StatusChoices, outl \in BOOLEAN :
       SubmitPrice(u, prod, store, entered, currency, st, outl)
  \/ \E p \in PriceIds, vt \in VoteTypes : CastVote(u, p, vt)
  \/ \E p \in PriceIds : ReportPrice(u, p)
  \/ \E p \in PriceIds, st \in StatusChoices, outl \in BOOLEAN : UpdatePrice(u, p, st, outl)

\* C5: no request of a non-admin user moves an existing price from pending or
\* rejected to approved, or from approved or pending to rejected.
C5_NonAdminNeverModerates ==
  [][\A u \in Users :
       (~is_admin[u] /\ NonAdminRequest(u))
       => \A p \in DOMAIN prices :
            /\ ~(prices[p].status # "approved" /\ prices'[p].status = "approved")
            /\ ~(prices[p].status # "rejected" /\ prices'[p].status = "rejected")]_vars

\* C6: a vote on one's own price fails for both vote types and changes no
\* row, no counter and no trust score.
C6_SelfVoteFails ==
  [][\A u \in Users, p \in DOMAIN prices, vt \in VoteTypes :
       (CastVote(u, p, vt) /\ prices[p].submitted_by = u)
       => /\ response' = Resp("castVote", "SelfVoteForbidden")
          /\ UNCHANGED db]_vars

C6_Witness ==
  /\ response = Resp("castVote", "SelfVoteForbidden")
  /\ prices # << >>

\* C7: a second vote of a user on the same price fails with DuplicateVote,
\* whatever the two vote types, and changes nothing; every (price, user) pair
\* has at most one row and an existing row is never changed or removed.
C7_DuplicateVoteFails ==
  /\ [][\A u \in Users, p \in DOMAIN prices, vt \in VoteTypes :
          (CastVote(u, p, vt) /\ HasVoted(verifications, u, p))
          => /\ response' = Resp("castVote", "DuplicateVote")
             /\ UNCHANGED db]_vars
  /\ [][\A v \in BagToSet(verifications) :
          CopiesIn(v, verifications') = CopiesIn(v, verifications)]_vars
  /\ [](\A p \in DOMAIN prices, u \in Users :
          Copies(verifications, {v \in VoteRows(verifications, p) : v.user = u}) <= 1)

C7_Witness ==
  /\ response = Resp("castVote", "DuplicateVote")
  /\ BagCardinality(verifications) >= 1

\* C9: a successful vote adds exactly one row, adds 1 to the counter of its
\* vote type, leaves the other counter, the status and the outlier flag as
\* they were, adds 1 to the voter's trust score and changes no other score.
C9_VoteFrame ==
  [][\A u \in Users, p \in DOMAIN prices, vt \in VoteTypes :
       (CastVote(u, p, vt) /\ response' = Resp("castVote", "ok"))
       => /\ verifications' =
               verifications (+) SetToBag({[price |-> p, user |-> u, vote_type |-> vt]})
          /\ BagCardinality(verifications') = BagCardinality(verifications) + 1
          /\ prices'[p].positive_votes =
               prices[p].positive_votes + (IF vt = "positive" THEN 1 ELSE 0)
          /\ prices'[p].negative_votes =
               prices[p].negative_votes + (IF vt = "negative" THEN 1 ELSE 0)
          /\ prices'[p].status = prices[p].status
          /\ prices'[p].is_outlier = prices[p].is_outlier
          /\ \A q \in DOMAIN prices : q # p => prices'[q] = prices[q]
          /\ trust_score' = [trust_score EXCEPT ![u] = @ + 1]]_vars

C9_Witness ==
  /\ response = Resp("castVote", "ok")
  /\ \E p \in DOMAIN prices : prices[p].negative_votes = 1 /\ prices[p].is_outlier

\* C10: a report on one's own price fails with SelfReportForbidden, a second
\* report of the same user with DuplicateReport, both without adding a row or
\* changing a status; so a price has as many reports as distinct reporters,
\* none of them its submitter.
C10_ReportFailures ==
  /\ [][\A u \in Users, p \in DOMAIN prices :
          (ReportPrice(u, p) /\ (prices[p].submitted_by = u \/ HasReported(reports, u, p)))
          => /\ response' = Resp("reportPrice",
                                 IF prices[p].submitted_by = u
                                 THEN "SelfReportForbidden" ELSE "DuplicateReport")
             /\ UNCHANGED db]_vars
  /\ [](\A p \in DOMAIN prices :
          /\ ReportCount(reports, p)
               = Cardinality({r.reported_by : r \in ReportRows(reports, p)})
          /\ \A r \in ReportRows(reports, p) : r.reported_by # prices[p].submitted_by)

C10_Witness ==
  /\ response = Resp("reportPrice", "DuplicateReport")
  /\ BagCardinality(reports) >= 1

\* C2: in every reachable state every user's trust_score is >= 0, for any
\* interleaving of product creations, price submissions, votes and admin
\* rejections, including repeated rejections of prices of a user whose score
\* is below 20.
C2_TrustScoreNonNegative ==
  \A u \in Users : trust_score[u] >= 0

\* two rejections of the same price in flight, both having penalized a
\* submitter they loaded with a score below 20, the stored score being 0
C2_Witness ==
  /\ \A s \in Slots : At(s, "reject", "save_price")
  /\ reqs[1].price = reqs[2].price
  /\ \A s \in Slots : reqs[s].t_row.trust_score < RejectPenalty
  /\ trust_score[reqs[1].p_row.submitted_by] = 0

VotesBy(u) == Copies(verifications, {v \in BagToSet(verifications) : v.user = u})

PricesBy(u) == Cardinality({i \in DOMAIN prices : prices[i].submitted_by = u})

\* C8: when identical castVote requests (same user, same price) run
\* concurrently and both pass the not-yet-voted check, at most one
\* PriceVerification row for the (price, user) pair exists, the price's
\* counters count no more than the rows and the voter has no more than +1 per
\* row; likewise at most one PriceReport row per (price, reporter) pair.
C8_ConcurrentDuplicatesOnce ==
  /\ \A v, w \in BagToSet(verifications) :
       /\ CopiesIn(v, verifications) = 1
       /\ (v.price = w.price /\ v.user = w.user) => v = w
  /\ \A r \in BagToSet(reports) : CopiesIn(r, reports) = 1
  /\ \A p \in DOMAIN prices :
       /\ prices[p].positive_votes <= PositiveRows(verifications, p)
       /\ prices[p].negative_votes <= NegativeRows(verifications, p)
  /\ \A u \in Users :
       trust_score[u] <= PriceAward * PricesBy(u) + VoteAward * VotesBy(u)

\* the second of two identical votes that both passed the check has been
\* refused by the table, the first one being counted once
C8_Witness ==
  /\ response = Resp("castVote", "IntegrityError")
  /\ \A s \in Slots : reqs[s].op = "idle"
  /\ \E v \in BagToSet(verifications) :
       /\ BagCardinality(verifications) = 1
       /\ prices[v.price].positive_votes + prices[v.price].negative_votes = 1
       /\ trust_score[v.user] = PriceAward * PricesBy(v.user) + VoteAward

\* C11: an admin approve, from any prior status, leaves the price approved
\* with negative_votes = 0 and is_outlier = false, and leaves positive_votes,
\* the PriceVerification and PriceReport rows, every other price and every
\* user's trust_score unchanged.
C11_ApproveEffect ==
  [][\A u \in Users, p \in DOMAIN prices :
       (ApprovePrice(u, p) /\ is_admin[u])
       => /\ response' = Resp("approve", "ok")
          /\ prices'[p].status = "approved"
          /\ prices'[p].negative_votes = 0
          /\ prices'[p].is_outlier = FALSE
          /\ prices'[p].positive_votes = prices[p].positive_votes
          /\ \A q \in DOMAIN prices : q # p => prices'[q] = prices[q]
          /\ UNCHANGED <<verifications, reports, trust_score>>]_vars

\* approved after an approve: a price that carries a negative vote, submitted
\* by a user who still has the submission award only
C11_Witness ==
  \E p \in DOMAIN prices :
    /\ response = Resp("approve", "ok")
    /\ prices[p].status = "approved"
    /\ prices[p].negative_votes = 0
    /\ ~prices[p].is_outlier
    /\ BagCardinality(verifications) = 1
    /\ NegativeRows(verifications, p) = 1

\* C12 (as stated): is_outlier goes from true to false only in an admin
\* approve step, negative_votes decreases only in an admin approve step, and
\* positive_votes never decreases.
C12_ClearedOnlyByApprove ==
  [][\A p \in DOMAIN prices :
       /\ (prices[p].is_outlier /\ ~prices'[p].is_outlier)
          => response' = Resp("approve", "ok")
       /\ (prices'[p].negative_votes < prices[p].negative_votes)
          => response' = Resp("approve", "ok")
       /\ prices'[p].positive_votes >= prices[p].positive_votes]_vars

\* C14: approve and reject by a user who is not an admin fail with Forbidden
\* and change nothing in the database.
C14_ModerationForbidden ==
  [][\A u \in Users, p \in PriceIds :
       (~is_admin[u] /\ (ApprovePrice(u, p) \/ RejectPrice(u, p)))
       => /\ response'.result = "Forbidden"
          /\ UNCHANGED db]_vars

C14_Witness ==
  /\ response = Resp("reject", "Forbidden")
  /\ \E p \in DOMAIN prices : prices[p].status = "approved" /\ prices[p].is_outlier

\* C16 (as stated): every successful submission creates exactly one price,
\* with status approved, and adds exactly 3 to the submitter's trust score.
C16_SubmissionApproved ==
  [][response' = Resp("submitPrice", "ok")
     => /\ Len(prices') = Len(prices) + 1
        /\ prices'[Len(prices')].status = "approved"
        /\ \A q \in DOMAIN prices : prices'[q] = prices[q]
        /\ trust_score' = [trust_score EXCEPT
                             ![prices'[Len(prices')].submitted_by] = @ + PriceAward]]_vars

\* an admin rejects price p, through the API or through the admin site
AdminRejects(p) ==
  \E u \in Users :
    /\ is_admin[u]
    /\ \/ RejectPrice(u, p)
       \/ \E S \in SUBSET DOMAIN prices : p \in S /\ SiteRejectPrices(u, S)

\* C13 (as stated): an admin reject of a price sets its status to rejected
\* and changes the submitter's trust_score from s to max(0, s - 20), changing
\* no other score, no vote counter and no outlier flag; without a submitter
\* only the status changes.
C13_RejectEffect ==
  [][\A p \in DOMAIN prices :
       AdminRejects(p)
       => /\ prices'[p] = [prices[p] EXCEPT !.status = "rejected"]
          /\ trust_score' =
               IF prices[p].submitted_by \in Users
               THEN [trust_score EXCEPT
                       ![prices[p].submitted_by] = Max(0, @ - RejectPenalty)]
               ELSE trust_score]_vars

\* user u submits a price
Submits(u) ==
  \E prod \in DOMAIN products, store \in Stores, entered \in PricesEntered,
     currency \in Currencies, st \in StatusChoices, outl \in BOOLEAN :
    SubmitPrice(u, prod, store, entered, currency, st, outl)

\* C15 (as stated): a submission fails with RateLimited exactly when the user
\* has a price created less than 30 seconds ago, so that a submission made
\* once 30 seconds have elapsed since the user's last price succeeds; the
\* failed submission changes nothing, and other users' prices do not count.
C15_RateLimitedWithinThirty ==
  [][\A u \in Users :
       Submits(u)
       => /\ (response' = Resp("submitPrice", "RateLimited"))
               <=> (\E i \in DOMAIN prices :
                      /\ prices[i].submitted_by = u
                      /\ now - prices[i].created_at < RateLimitSeconds)
          /\ (response' = Resp("submitPrice", "RateLimited")) => UNCHANGED db
          /\ (response' # Resp("submitPrice", "RateLimited"))
               => response' = Resp("submitPrice", "ok")]_vars

\* the peers of a price being submitted for product prod: the product's
\* approved prices that are not flagged
Peers(prod) ==
  {i \in DOMAIN prices : /\ prices[i].product = prod
                         /\ prices[i].status = "approved"
                         /\ ~prices[i].is_outlier}

\* C17 (as stated): a newly submitted price is flagged exactly when its
\* product has at least 2 peers and the new price_eur is more than 2.5 times
\* or less than 0.4 times their mean.
C17_FlaggedIffOutlier ==
  [][response' = Resp("submitPrice", "ok")
     => LET new == prices'[Len(prices')]
            peers == Peers(new.product)
            n == Cardinality(peers)
            sum == SumEur(prices, peers)
        IN new.is_outlier <=> /\ n >= 2
                              /\ \/ 2 * n * new.price_eur > 5 * sum
                                 \/ 5 * n * new.price_eur < 2 * sum]_vars

\* C18: flagging leaves the status of the submitted price as requested, a
\* submission changes no existing price, and a price that is not flagged
\* stays unflagged through later submissions, votes, reports and admin
\* decisions.
C18_FlagTouchesOnlyNewPrice ==
  /\ [][response' = Resp("submitPrice", "ok")
          => /\ Len(prices') = Len(prices) + 1
             /\ \A q \in DOMAIN prices : prices'[q] = prices[q]
             /\ \A u \in OutlierUsers, prod \in DOMAIN products, store \in Stores,
                   entered \in OutlierPricesEntered, currency \in Currencies,
                   st \in StatusChoices :
                  SubmitPrice(u, prod, store, entered, currency, st, FALSE)
                  => prices'[Len(prices')].status = st]_vars
  /\ [][\A q \in DOMAIN prices :
          ~prices[q].is_outlier => ~prices'[q].is_outlier]_vars

\* a flagged price that kept the status it was submitted with, next to its
\* two unflagged peers
C18_Witness ==
  /\ response = Resp("submitPrice", "ok")
  /\ Len(prices) = 3
  /\ prices[3].is_outlier
  /\ prices[3].status = "approved"
  /\ \A q \in {1, 2} : prices[q].status = "approved" /\ ~prices[q].is_outlier

\* C19: a created product is approved exactly when its creator is an admin or
\* has a trust_score of at least 100 when creating it, and pending otherwise;
\* the creator gets 5 points in both cases; a creator who is not an admin and
\* has 50 <= trust_score < 100 may auto-approve prices and gets a pending
\* product.
C19_ProductStatusByTrust ==
  [][\A u \in ProductUsers, b \in ProductBarcodes :
       (CreateProduct(u, b) /\ response' = Resp("createProduct", "ok"))
       => LET new == products'[Len(products')]
          IN /\ Len(products') = Len(products) + 1
             /\ new.created_by = u
             /\ new.status = "approved" <=> CanAutoApproveProducts(u)
             /\ new.status = "pending" <=> ~CanAutoApproveProducts(u)
             /\ trust_score' = [trust_score EXCEPT ![u] = @ + ProductAward]
             /\ (~is_admin[u] /\ trust_score[u] >= PriceAutoApproveScore
                              /\ trust_score[u] < ProductAutoApproveScore)
                => (CanAutoApprovePrices(u) /\ new.status = "pending")]_vars

\* a pending product whose creator came with 50 points, and an approved one
\* whose creator came with 100
C19_Witness ==
  /\ response = Resp("createProduct", "ok")
  /\ \E i, j \in DOMAIN products :
       /\ products[i].status = "pending"
       /\ products[i].created_by \in Users
       /\ ~is_admin[products[i].created_by]
       /\ trust_score[products[i].created_by] = PriceAutoApproveScore + ProductAward
       /\ products[j].status = "approved"
       /\ products[j].created_by \in Users
       /\ ~is_admin[products[j].created_by]
       /\ trust_score[products[j].created_by] = ProductAutoApproveScore + ProductAward

ProductsBy(u) == Cardinality({i \in DOMAIN products : products[i].created_by = u})

\* C20 (as stated, for the awards): no trust-score update is lost when
\* requests of the same user interleave; once every request has completed, a
\* user holds the awards of all the prices, votes and products the user has
\* recorded, as if the requests had run one after the other.
C20_NoAwardLost ==
  (\A s \in Slots : reqs[s].op = "idle")
  => \A u \in Users :
       trust_score[u] >= PriceAward * PricesBy(u) + VoteAward * VotesBy(u)
                           + ProductAward * ProductsBy(u)

\* C21 (as stated): no vote increment is lost when requests on the same
\* price interleave; once every request has completed, positive_votes +
\* negative_votes accounts for every PriceVerification row of the price.
C21_NoVoteLost ==
  (\A s \in Slots : reqs[s].op = "idle")
  => \A p \in DOMAIN prices :
       prices[p].positive_votes + prices[p].negative_votes = VoteCount(verifications, p)

\* C25 (as stated): a user's total_prices_added is the number of prices the
\* user has submitted; a successful submission adds exactly 1 and a
\* rate-limited one adds nothing.
C25_CountsSubmissions ==
  /\ [](\A u \in Users : total_prices_added[u] = PricesBy(u))
  /\ [][\A u \in Users :
          Submits(u)
          => total_prices_added' =
               IF response' = Resp("submitPrice", "ok")
               THEN [total_prices_added EXCEPT ![u] = @ + 1]
               ELSE total_prices_added]_vars

\* C26: a successful reportPrice adds exactly one PriceReport row, that of
\* the reporter and the price, and changes nothing else except possibly the
\* status of the reported price (to pending): no user row, no product, no
\* vote, no other price and no other field of the reported price changes.
C26_ReportFrame ==
  [][response' = Resp("reportPrice", "ok")
     => \E u \in Users, p \in DOMAIN prices :
          /\ reports' = reports (+) SetToBag({[price |-> p, reported_by |-> u]})
          /\ BagCardinality(reports') = BagCardinality(reports) + 1
          /\ UNCHANGED <<users, products, verifications, items>>
          /\ DOMAIN prices' = DOMAIN prices
          /\ \A q \in DOMAIN prices :
               \/ prices'[q] = prices[q]
               \/ /\ q = p
                  /\ prices'[q] = [prices[q] EXCEPT !.status = "pending"]]_vars

\* A successful report has just demoted a price to pending, and the
\* submitter's score is the one the submission left.
C26_Witness ==
  /\ response = Resp("reportPrice", "ok")
  /\ \E p \in DOMAIN prices :
       /\ prices[p].status = "pending"
       /\ ReportCount(reports, p) = ReportThreshold
       /\ prices[p].submitted_by \in Users
       /\ trust_score[prices[p].submitted_by] \in {s + PriceAward : s \in InitialScores}

\* C28: reject is not idempotent. Every reject of a price by an admin
\* subtracts 20 from the submitter's trust score, floored at 0, also when the
\* price is already rejected, and leaves the price rejected; so k rejects of
\* one price cost its submitter min(s, 20k) in total.
C28_EveryRejectPenalizes ==
  [][\A u \in Users, p \in DOMAIN prices :
       (is_admin[u] /\ RejectPrice(u, p))
       => /\ prices'[p].status = "rejected"
          /\ prices[p].submitted_by \in Users
             => /\ trust_score'[prices[p].submitted_by]
                     = Max(0, trust_score[prices[p].submitted_by] - RejectPenalty)
                /\ trust_score[prices[p].submitted_by] >= RejectPenalty
                   => trust_score'[prices[p].submitted_by]
                        < trust_score[prices[p].submitted_by]]_vars

\* Price 1 has been rejected twice: its submitter started at 22 + 3 (the
\* others still hold 22 or 23) and has lost min(25, 40) = 25.
C28_Witness ==
  /\ response = Resp("reject", "ok")
  /\ prices[1].status = "rejected"
  /\ prices[1].submitted_by = 2
  /\ trust_score[2] = 0
  /\ trust_score[3] >= 22

\* C29: castVote and reportPrice do not depend on the moderation status. On
\* a pending or rejected price a user who is not the submitter and has not
\* voted (reported) yet succeeds: the vote is counted and earns its +1, and
\* the report is recorded without changing the price, whatever the number of
\* reports.
C29_StatusIndependent ==
  [][/\ response'.op = "castVote"
        => \A u \in Users, p \in DOMAIN prices :
             (/\ prices[p].status \in {"pending", "rejected"}
              /\ prices[p].submitted_by # u
              /\ ~HasVoted(verifications, u, p))
             => \A vt \in VoteTypes :
                  CastVote(u, p, vt)
                  => /\ response' = Resp("castVote", "ok")
                     /\ VoteCountOf(verifications', p, vt)
                          = VoteCountOf(verifications, p, vt) + 1
                     /\ prices'[p] = CountVote(prices[p], vt)
                     /\ trust_score' = [trust_score EXCEPT ![u] = @ + VoteAward]
     /\ response'.op = "reportPrice"
        => \A u \in Users, p \in DOMAIN prices :
             (/\ prices[p].status \in {"pending", "rejected"}
              /\ prices[p].submitted_by # u
              /\ ~HasReported(reports, u, p)
              /\ ReportPrice(u, p))
             => /\ response' = Resp("reportPrice", "ok")
                /\ ReportCount(reports', p) = ReportCount(reports, p) + 1
                /\ prices' = prices]_vars

\* Price 1 was rejected and reported a third time, and the third step is a
\* vote on it: a vote counted on a rejected price holding three reports.
C29_Witness ==
  /\ steps = 3
  /\ response = Resp("castVote", "ok")
  /\ prices[1].status = "rejected"
  /\ ReportCount(reports, 1) = ReportThreshold
  /\ prices[1].positive_votes + prices[1].negative_votes = 1
  /\ VoteCount(verifications, 1) = 1

\* C30: the auto-approval of a product is decided on the creator's score
\* before the +5 award: a non-admin creator holding 95..99 gets a pending
\* product although the score is at least 100 once the request completes; and
\* no later step changes the status of a product already created, also when
\* its creator's score has reached 100.
C30_DecidedBeforeAward ==
  [][/\ \A i \in DOMAIN products : products'[i] = products[i]
     /\ \A u \in ProductUsers, b \in ProductBarcodes :
          (/\ CreateProduct(u, b)
           /\ response' = Resp("createProduct", "ok")
           /\ ~is_admin[u]
           /\ trust_score[u] + ProductAward >= ProductAutoApproveScore
           /\ trust_score[u] < ProductAutoApproveScore)
          => /\ products'[Len(products')].status = "pending"
             /\ products'[Len(products')].created_by = u
             /\ trust_score'[u] >= ProductAutoApproveScore]_vars

\* The same non-admin creator has a pending product, created at 95..99, and
\* a later approved one, created once the score had reached 100.
C30_Witness ==
  \E i, j \in DOMAIN products :
    /\ i < j
    /\ products[i].created_by = products[j].created_by
    /\ products[i].created_by \in Users
    /\ ~is_admin[products[i].created_by]
    /\ products[i].status = "pending"
    /\ products[j].status = "approved"
    /\ trust_score[products[i].created_by] >= ProductAutoApproveScore

\* C27 (as stated): a price that no admin has approved is approved only
\* while it has fewer than 3 PriceReport rows. No request of this
\* specification is an approve, so once every request has completed each
\* approved price has fewer than 3 reports.
C27_ApprovedBelowThreshold ==
  (\A s \in Slots : reqs[s].op = "idle")
  => \A p \in DOMAIN prices :
       prices[p].status = "approved" => ReportCount(reports, p) < ReportThreshold

\* the k-th smallest price_eur among the rows ids
Kth(ps, ids, k) ==
  CHOOSE x \in {ps[i].price_eur : i \in ids} :
    /\ Cardinality({i \in ids : ps[i].price_eur < x}) < k
    /\ k <= Cardinality({i \in ids : ps[i].price_eur <= x})

\* the statistical median of the rows ids, in half cents
StatisticalMedian(ps, ids) ==
  LET n == Cardinality(ids)
  IN IF n % 2 = 1 THEN 2 * Kth(ps, ids, (n + 1) \div 2)
     ELSE Kth(ps, ids, n \div 2) + Kth(ps, ids, n \div 2 + 1)

\* the prices a history of the product over the period is about
Qualifying(prod, period) ==
  {i \in DOMAIN prices :
     /\ prices[i].product = prod
     /\ prices[i].status = "approved"
     /\ prices[i].is_outlier = FALSE
     /\ period = "week" => now - prices[i].created_at <= Days(WeekDays)
     /\ period = "month" => now - prices[i].created_at <= Days(MonthDays)}

\* C22: getPriceHistory uses exactly the product's approved, non-outlier
\* prices created within the window (7 days, 30 days, unbounded); it returns
\* one entry per calendar creation date, in strictly ascending date order,
\* whose median is the statistical median of that date's prices (the mean of
\* the two middle values for an even count).
C22_DailyMedians ==
  (response.op = "price_history" /\ response.result = "ok")
  => LET dm == response.daily_medians
         q == Qualifying(response.product, response.period)
     IN /\ {dm[k].date : k \in DOMAIN dm} = {DateOf(prices[i].created_at) : i \in q}
        /\ \A k \in 1 .. Len(dm) - 1 : dm[k].date < dm[k + 1].date
        /\ \A k \in DOMAIN dm :
             LET day == {i \in q : DateOf(prices[i].created_at) = dm[k].date}
             IN /\ dm[k].count = Cardinality(day)
                /\ dm[k].median_price_eur = StatisticalMedian(prices, day)

\* The history over all of product 1 with 5.00 and 7.00 on one day and 9.00
\* on a later day, next to a pending price of that later day: medians 6.00
\* and 9.00.
C22_Witness ==
  /\ response.op = "price_history"
  /\ response.result = "ok"
  /\ response.product = 1
  /\ response.period = "all"
  /\ Len(response.daily_medians) = 2
  /\ response.daily_medians[1].median_price_eur = 2 * 600
  /\ response.daily_medians[1].count = 2
  /\ response.daily_medians[2].median_price_eur = 2 * 900
  /\ response.daily_medians[2].count = 1
  /\ \E i, j, k \in DOMAIN prices :
       /\ prices[i].price_eur = 500
       /\ prices[j].price_eur = 700
       /\ prices[k].status = "pending"
       /\ DateOf(prices[k].created_at) = response.daily_medians[2].date

\* the product-bearing items of the list
Bearing == {j \in DOMAIN items : items[j].product # 0}

\* the approved prices of item j's product at a store
ApprovedFor(j, store) ==
  {i \in DOMAIN prices : /\ prices[i].product = items[j].product
                         /\ prices[i].store = store
                         /\ prices[i].status = "approved"}

\* the items that have an approved price at a store
PricedAt(store) == {j \in Bearing : ApprovedFor(j, store) # {}}

\* the most recently created approved price of item j's product at a store
MostRecent(j, store) ==
  CHOOSE i \in ApprovedFor(j, store) :
    \A k \in ApprovedFor(j, store) \ {i} : prices[k].created_at < prices[i].created_at

\* the sum of quantity x price_eur over the items js
RECURSIVE SumCost(_, _)
SumCost(js, store) ==
  IF js = {} THEN 0
  ELSE LET j == CHOOSE x \in js : TRUE
       IN items[j].quantity * prices[MostRecent(j, store)].price_eur
          + SumCost(js \ {j}, store)

\* C23: for each store of a comparison, the total is the sum over the
\* product-bearing items of quantity x price_eur of the item's most recently
\* created approved price at that store; the items without an approved price
\* there are left out of the sum and listed in items_without_prices; and
\* coverage_percent is items priced / product-bearing items x 100, to one
\* decimal, 0 when the list has no product-bearing item.
C23_TotalOfLatestApproved ==
  (response.op = "compare_stores" /\ response.result = "ok")
  => /\ response.total_items = Cardinality(Bearing)
     /\ \A k \in DOMAIN response.stores :
          LET r == response.stores[k]
              priced == PricedAt(r.store_id)
              without == r.items_without_prices
          IN /\ r.total_price_eur = SumCost(priced, r.store_id)
             /\ r.items_with_prices = Cardinality(priced)
             /\ Len(without) = Cardinality(Bearing \ priced)
             /\ \A prod \in DOMAIN products :
                  Cardinality({n \in DOMAIN without : without[n] = prod})
                    = Cardinality({j \in Bearing \ priced : items[j].product = prod})
             /\ IF Bearing = {} THEN r.coverage_percent = 0
                ELSE LET d == 1000 * Cardinality(priced)
                              - r.coverage_percent * Cardinality(Bearing)
                     IN 2 * d <= Cardinality(Bearing) /\ -2 * d <= Cardinality(Bearing)

\* The list holds product 1 twice over and product 2 once; at the first store
\* of the comparison product 1 has an older approved price of 5.00 and a
\* newer one of 3.00 and product 2 has none: total 6.00, one item priced,
\* product 2 listed without price, coverage 50.0.
C23_Witness ==
  /\ response.op = "compare_stores"
  /\ response.result = "ok"
  /\ items = << [product |-> 1, quantity |-> 2], [product |-> 2, quantity |-> 1] >>
  /\ Len(prices) = 2
  /\ prices[1].price_eur = 500
  /\ prices[2].price_eur = 300
  /\ ApprovedFor(1, 1) = {1, 2}
  /\ \E k \in DOMAIN response.stores :
       /\ response.stores[k].store_id = 1
       /\ response.stores[k].total_price_eur = 600
       /\ response.stores[k].items_with_prices = 1
       /\ response.stores[k].items_without_prices = <<2>>
       /\ response.stores[k].coverage_percent = 500

\* the results of a comparison answer the store ids of the request one for
\* one, and their totals ascend
OnePerStoreAscending(store_ids, stores) ==
  /\ Len(stores) = Len(store_ids)
  /\ \E perm \in [DOMAIN stores -> DOMAIN store_ids] :
       /\ \A a, b \in DOMAIN stores : a # b => perm[a] # perm[b]
       /\ \A k \in DOMAIN stores : stores[k].store_id = store_ids[perm[k]]
  /\ \A k \in 1 .. Len(stores) - 1 :
       stores[k].total_price_eur <= stores[k + 1].total_price_eur

\* C24 (as stated): compareStores fails with InsufficientStores when fewer
\* than 2 store ids are supplied; otherwise it returns exactly one result per
\* supplied store id, ordered by total ascending; it modifies nothing.
C24_OneResultPerSuppliedId ==
  [][\A u \in CompareUsers, store_ids \in StoreIdsSupplied :
       (ListVisible(u) /\ CompareStores(u, store_ids))
       => /\ Len(store_ids) < 2
             => response' = Resp("compare_stores", "InsufficientStores")
          /\ Len(store_ids) >= 2
             => /\ response'.result = "ok"
                /\ OnePerStoreAscending(store_ids, response'.stores)
          /\ UNCHANGED <<prices, items, users>>]_vars

\* C24 (amended): compareStores fails with InsufficientStores when fewer
\* than 2 store ids are supplied; with 2 or more it fails with NotFound when
\* one of them names no store, and otherwise returns exactly one result per
\* supplied store id, ordered by total ascending; it modifies no price, list
\* item or user.
C24_OneResultPerExistingStore ==
  [][\A u \in CompareUsers, store_ids \in StoreIdsSupplied :
       (ListVisible(u) /\ CompareStores(u, store_ids))
       => /\ Len(store_ids) < 2
             => response' = Resp("compare_stores", "InsufficientStores")
          /\ (Len(store_ids) >= 2 /\ \E k \in DOMAIN store_ids : store_ids[k] \notin StoreTable)
             => response' = Resp("compare_stores", "NotFound")
          /\ (Len(store_ids) >= 2 /\ \A k \in DOMAIN store_ids : store_ids[k] \in StoreTable)
             => /\ response'.result = "ok"
                /\ OnePerStoreAscending(store_ids, response'.stores)
          /\ UNCHANGED <<prices, items, users>>]_vars

\* A comparison of both stores in which store 2, the cheaper one, comes
\* first and every item is priced at both stores.
C24_Witness ==
  /\ response.op = "compare_stores"
  /\ response.result = "ok"
  /\ Len(response.stores) = 2
  /\ response.stores[1].store_id = 2
  /\ response.stores[2].store_id = 1
  /\ response.stores[1].total_price_eur < response.stores[2].total_price_eur
  /\ response.stores[1].items_with_prices >= 1
  /\ response.stores[2].items_with_prices >= 1

====
